---- MODULE Spec2Model ----
(***************************************************************************)
(* Model of the five batch source-rewriting scripts of the repository:     *)
(*   apply-phase1-standards.py, update-phase1-endpoints.py,                *)
(*   migrate-endpoints.py, apply-rbac.py, fix-all-methods.py.              *)
(*                                                                         *)
(* A route file is a sequence of tokens.  A token stands for one fixed     *)
(* piece of TypeScript text in its usual layout (an import statement, the  *)
(* line that opens a handler, an authorization call, ...); white space     *)
(* between tokens is not represented.  Every regular expression and every  *)
(* substring test of the scripts is translated to the tokens whose text it *)
(* matches.                                                                *)
(***************************************************************************)
EXTENDS Integers, Sequences, FiniteSets, TLC

VARIABLES
    script,     \* batch run: which script's main is running
    tasks,      \* batch run: the task list, one record per file path
    fs,         \* batch run: persisted content of each task's path
    fs0,        \* batch run: fs as it was when the run started
    idx,        \* batch run: number of loop iterations of main completed
    pc,         \* batch run: "run", "done" (summary printed) or "crashed"
    outcomes,   \* batch run: the per-file line printed for each task
    reads,      \* batch run: task numbers opened for reading, in order
    writes,     \* batch run: task numbers opened for writing, in order
    counts,     \* batch run: the counters of main
    rule,       \* rule run: the rule or pipeline under test
    ctx,        \* rule run: the file's path kind, resource and the method
    input,      \* rule run: the content given to the first application
    prev,       \* rule run: the content before the last application
    content,    \* rule run: the content after the last application
    runs,       \* rule run: number of applications so far
    err         \* rule run: the last application raised an exception

batchVars ==
    <<script, tasks, fs, fs0, idx, pc, outcomes, reads, writes, counts>>
ruleVars == <<rule, ctx, input, prev, content, runs, err>>
vars == <<script, tasks, fs, fs0, idx, pc, outcomes, reads, writes, counts,
          rule, ctx, input, prev, content, runs, err>>

(***************************************************************************)
(* Tokens                                                                  *)
(***************************************************************************)
\* import { syms } from 'from';
Imp(from, syms) == [k |-> "import", from |-> from, syms |-> syms]
\* a multi-line import statement, one token per line:
\*   import {        /   sym,   /   } from 'from';
ImpOpen == [k |-> "importOpen"]
ImpSym(sym) == [k |-> "importSym", sym |-> sym]
ImpFrom(from) == [k |-> "importFrom", from |-> from]
\* an empty line at top level
Blank == [k |-> "blank"]
\* a top-level // comment line
Comment == [k |-> "comment"]
\* export async function M(request: NextRequest) {    (params) or  M() {
Fn(m, params) == [k |-> "fn", m |-> m, params |-> params]
\* the } that closes a handler
End == [k |-> "end"]
\* try {
Try == [k |-> "try"]
\* } catch (error: any) {   (typed)  or  } catch (error) {
Catch(typed) == [k |-> "catch", typed |-> typed]
\* the } that closes a catch block
Close == [k |-> "close"]
\* const requestId = getRequestId(request);
BindReqId == [k |-> "bindReqId"]
\* const startTime = Date.now();
BindStart == [k |-> "bindStart"]
\* const <var> = await requireTenant(request);
TenantCall(var) == [k |-> "tenantCall", var |-> var]
\* if ('error' in <var>) { return <ret>; }
\*   ret = "errorResponse": return errorResponse(<var>.error)
\*   ret = "error":         return <var>.error
\*   ret = "standardAuth":  return standardErrorResponse(
\*                            ErrorCodes.AUTHENTICATION_REQUIRED, ..., requestId)
ErrIf(var, ret) == [k |-> "errIf", var |-> var, ret |-> ret]
\* const { fields } = <var>;   pad: number of blanks before the closing brace
Destr(fields, var, pad) ==
    [k |-> "destr", fields |-> fields, var |-> var, pad |-> pad]
\* const authResult = await requirePermission(request, 'res', 'act');
PermCall(res, act) == [k |-> "permCall", res |-> res, act |-> act]
\* the rate-check block: comment, trackRequest(`user_${user.userId}<suffix>`,
\* limit, window) and the 429 return
Rate(suffix, limit, window) ==
    [k |-> "rate", suffix |-> suffix, limit |-> limit, window |-> window]
\* any other statement, n characters long, that no pattern looks at
Code(n) == [k |-> "code", n |-> n]
\* a pagination call  name(args)
Call(name, args) == [k |-> "call", name |-> name, args |-> args]
\* return errorResponse(<problem>Problem(<msg>[, extra]))
\*   quote: "single" 'msg', "double" "msg", "expr" an expression (no literal),
\*          "none" no argument at all
LegacyErr(problem, quote, msg, extra) ==
    [k |-> "legacyErr", problem |-> problem, quote |-> quote, msg |-> msg,
     extra |-> extra]
\* return <fn>(<code>, <msg>, <status>, undefined, requestId)
\*   fn: "standardErrorResponse" or "notFoundErrorResponse" (msg, requestId)
\*   quoted: the message is written as a string literal
StdErr(fn, code, msg, quoted, status) ==
    [k |-> "stdErr", fn |-> fn, code |-> code, msg |-> msg, quoted |-> quoted,
     status |-> status]
\* a JSON response
\*   form = "inline":  return NextResponse.json(x);
\*   form = "headers": const response = NextResponse.json(x);
\*                     addStandardHeaders(response, requestId); return response;
\*   form = "xreq":    NextResponse.json(x);
\*                     response.headers.set('X-Request-Id', requestId);
\*                     return response
RetJson(form) == [k |-> "retJson", form |-> form]
\* return successResponse(x);     nargs arguments
RetSuccess(nargs) == [k |-> "retSuccess", nargs |-> nargs]
\* console.error(...);
ConsoleError == [k |-> "consoleError"]
\* logResponse(requestId, 500, Date.now() - startTime, { error: ... });
LogResponse == [k |-> "logResponse"]

(***************************************************************************)
(* The text of a token: the substrings the scripts test for, the braces    *)
(* the patterns stop at, and the length in characters.                     *)
(***************************************************************************)
Needles(t) ==
    CASE t.k = "import" -> {t.syms[i] : i \in 1..Len(t.syms)} \cup {t.from}
      [] t.k = "importSym" -> {t.sym}
      [] t.k = "importFrom" -> {t.from}
      [] t.k = "bindReqId" ->
            {"getRequestId", "getRequestId(request)",
             "const requestId = getRequestId(request)"}
      [] t.k = "tenantCall" -> {"requireTenant"}
      [] t.k = "errIf" ->
            IF t.ret = "errorResponse" THEN {"errorResponse("}
            ELSE IF t.ret = "standardAuth" THEN {"standardErrorResponse"}
            ELSE {}
      [] t.k = "permCall" -> {"requirePermission"}
      [] t.k = "rate" ->
            {"globalRateLimitTracker", "globalRateLimitTracker.trackRequest",
             "standardErrorResponse"}
      [] t.k = "call" -> {t.name}
      [] t.k = "legacyErr" -> {"errorResponse("}
      [] t.k = "stdErr" -> {t.fn}
      [] t.k = "retJson" ->
            IF t.form = "headers" THEN {"NextResponse", "addStandardHeaders"}
            ELSE {"NextResponse"}
      [] t.k = "logResponse" -> {"logResponse"}
      [] OTHER -> {}

\* needle in content
Contains(c, needle) == \E i \in 1..Len(c) : needle \in Needles(c[i])

\* the text of t holds a '{'
HasOpen(t) ==
    t.k \in {"import", "importOpen", "fn", "try", "catch", "errIf", "destr",
             "rate", "logResponse"}

\* the text of t holds a '}'
HasClose(t) ==
    t.k \in {"import", "importFrom", "end", "catch", "close", "errIf",
             "destr", "rate", "logResponse"}

\* number of characters of t, with its line break and indentation
TokLen(t) ==
    CASE t.k = "fn" -> 50
      [] t.k = "bindReqId" -> 43
      [] t.k = "bindStart" -> 32
      [] t.k = "tenantCall" -> 55
      [] t.k = "errIf" -> 89
      [] t.k = "destr" -> 45
      [] t.k = "permCall" -> 74
      [] t.k = "rate" -> 514
      [] t.k = "code" -> t.n
      [] t.k = "try" -> 8
      [] t.k = "end" -> 2
      [] t.k = "close" -> 4
      [] t.k = "blank" -> 1
      [] OTHER -> 40

(***************************************************************************)
(* Sequence helpers: slicing, insertion and per-token substitution as the  *)
(* scripts do them on strings.                                             *)
(***************************************************************************)
Min(S) == CHOOSE x \in S : \A y \in S : x <= y
Max(S) == CHOOSE x \in S : \A y \in S : x >= y

\* c[:i] + ins + c[i:]   (i tokens kept in front)
InsertAfter(c, i, ins) == SubSeq(c, 1, i) \o ins \o SubSeq(c, i + 1, Len(c))

\* c[:i-1] + new + c[j:]   (tokens i..j replaced)
ReplaceRange(c, i, j, new) ==
    SubSeq(c, 1, i - 1) \o new \o SubSeq(c, j + 1, Len(c))

\* re.sub / str.replace applied to every token: F gives a token's rewriting
FlatMap(c, F(_)) ==
    LET f[i \in 0..Len(c)] == IF i = 0 THEN <<>> ELSE f[i - 1] \o F(c[i])
    IN  f[Len(c)]

\* old occurs in c at position i
OccursAt(c, old, i) ==
    /\ i + Len(old) - 1 <= Len(c)
    /\ SubSeq(c, i, i + Len(old) - 1) = old

\* str.replace(old, new): every non-overlapping occurrence, left to right
ReplaceAll(c, old, new) ==
    LET f[i \in 1..(Len(c) + 1)] ==
            IF i > Len(c) THEN <<>>
            ELSE IF Len(old) > 0 /\ OccursAt(c, old, i)
                 THEN new \o f[i + Len(old)]
                 ELSE <<c[i]>> \o f[i + 1]
    IN  f[1]

\* a line that starts with 'import '
IsImportLine(t) == t.k \in {"import", "importOpen"}

\* the handlers' methods, in the order every script's loop visits them
Methods == <<"GET", "POST", "PUT", "PATCH", "DELETE">>
MethodSet == {Methods[i] : i \in 1..Len(Methods)}

\* 'export async function M' in content
HasHandler(c, m) == \E i \in 1..Len(c) : c[i].k = "fn" /\ c[i].m = m

(***************************************************************************)
(* apply-phase1-standards.py                                               *)
(***************************************************************************)
PHASE1_IMPORTS ==
    << Imp("next/server", <<"NextRequest", "NextResponse">>),
       Imp("@/lib/db", <<"query">>),
       ImpOpen, ImpSym("parseStandardPaginationParams"),
       ImpSym("parseSortParams"), ImpSym("buildStandardListResponse"),
       ImpFrom("@/lib/pagination"),
       ImpOpen, ImpSym("buildWhereClause"), ImpSym("buildSearchClause"),
       ImpSym("buildQuery"), ImpFrom("@/lib/query-builder"),
       ImpOpen, ImpSym("standardErrorResponse"),
       ImpSym("validationErrorResponse"), ImpSym("ErrorCodes"),
       ImpSym("addStandardHeaders"), ImpFrom("@/lib/response"),
       Imp("@/middleware/permissions", <<"requirePermission">>),
       Imp("@/middleware/correlation",
           <<"getRequestId", "logRequest", "logResponse">>),
       Imp("@/middleware/rateLimit",
           <<"addRateLimitHeaders", "globalRateLimitTracker">>),
       Imp("@/middleware/audit",
           <<"auditLog", "AuditActions", "AuditResources">>) >>

\* r'^(import.*?)\n\n(?=export|\/\/)': from the first import statement to the
\* first empty line that an export or a // comment follows; every occurrence
\* of that text is replaced by PHASE1_IMPORTS
apply_phase1_imports(c) ==
    LET starts == {i \in 1..Len(c) : IsImportLine(c[i])}
    IN  IF starts = {} THEN c
        ELSE LET i == Min(starts)
                 ends == {j \in (i + 1)..(Len(c) - 1) :
                             c[j].k = "blank" /\ c[j + 1].k \in {"fn", "comment"}}
             IN  IF ends = {} THEN c
                 ELSE ReplaceAll(c, SubSeq(c, i, Min(ends) - 1), PHASE1_IMPORTS)

\* r'(export async function GET\([^)]+\) \{)' -> \1 + the two bindings,
\* at every match
TrackGet(t) ==
    IF t.k = "fn" /\ t.m = "GET" /\ t.params
    THEN <<t, BindReqId, BindStart>>
    ELSE <<t>>

\* r'(const \{ tenantId(?:, user)? \} = authResult;)'
Phase1AuthAnchor(t) ==
    /\ t.k = "destr"
    /\ t.var = "authResult"
    /\ t.pad = 1
    /\ t.fields \in {<<"tenantId">>, <<"tenantId", "user">>}

add_request_tracking_to_get(c) ==
    LET c1 == FlatMap(c, TrackGet)
        anchors == {i \in 1..Len(c1) : Phase1AuthAnchor(c1[i])}
    IN  IF anchors = {} THEN c1
        ELSE InsertAfter(c1, Min(anchors), <<Rate("", 100, 3600)>>)

RenamePagination(t) ==
    IF t.k = "call" /\ t.name = "parsePaginationParams"
    THEN <<Call("parseStandardPaginationParams", t.args)>>
    ELSE IF t.k = "call" /\ t.name = "buildPagedResponse"
    THEN <<Call("buildStandardListResponse", t.args)>>
    ELSE <<t>>

replace_pagination_calls(c) == FlatMap(c, RenamePagination)

\* r'errorResponse\(\s*internalServerErrorProblem\([^)]+\)\s*\)'
Phase1ErrorMatch(t) ==
    t.k = "legacyErr" /\ t.problem = "internal" /\ t.quote # "none"

\* the lambda: re.search(r"'([^']+)'", m.group(0)).group(1) is the message
\* without its quotes; re.search gives None when the call holds no
\* single-quoted literal and .group(1) raises AttributeError
Phase1ErrorRewrite(t) ==
    IF Phase1ErrorMatch(t)
    THEN <<StdErr("standardErrorResponse", "INTERNAL_ERROR", t.msg, FALSE, 500)>>
    ELSE <<t>>

replace_error_responses(c) ==
    IF \E i \in 1..Len(c) : Phase1ErrorMatch(c[i]) /\ c[i].quote # "single"
    THEN [raised |-> TRUE, c |-> c]
    ELSE [raised |-> FALSE, c |-> FlatMap(c, Phase1ErrorRewrite)]

\* the transformations of process_file, lines 187-200
Phase1Pipeline(c) ==
    replace_error_responses(
        replace_pagination_calls(
            add_request_tracking_to_get(apply_phase1_imports(c))))

(***************************************************************************)
(* update-phase1-endpoints.py                                              *)
(***************************************************************************)
REQUIRED_IMPORTS ==
    [correlation |->
        Imp("@/middleware/correlation",
            <<"getRequestId", "logRequest", "logResponse">>),
     rateLimit |->
        Imp("@/middleware/rateLimit",
            <<"addRateLimitHeaders", "globalRateLimitTracker">>),
     response |->
        Imp("@/lib/response",
            <<"standardErrorResponse", "validationErrorResponse", "ErrorCodes",
              "addStandardHeaders">>),
     pagination |->
        Imp("@/lib/pagination",
            <<"parseStandardPaginationParams", "buildStandardListResponse">>)]

\* (limit, window) by method; .get(method, (100, 3600))
RATE_LIMITS(m) ==
    CASE m = "GET" -> <<100, 3600>>
      [] m = "POST" -> <<50, 3600>>
      [] m = "PUT" -> <<50, 3600>>
      [] m = "PATCH" -> <<50, 3600>>
      [] m = "DELETE" -> <<20, 3600>>
      [] OTHER -> <<100, 3600>>

\* the text of a line is in content
LineIn(c, line) == \E i \in 1..Len(c) : c[i] = line

\* the lines of the response import that the loop of lines 58-62 replaces
OldResponseLines(c) ==
    {i \in 1..Len(c) : /\ "@/lib/response" \in Needles(c[i])
                       /\ "standardErrorResponse" \notin Needles(c[i])}

add_imports(c, isList) ==
    LET importLines == {i \in 1..Len(c) : IsImportLine(c[i])}
        \* last_import_idx + 1, counted in tokens kept in front
        after == IF importLines = {}
                 THEN (IF Len(c) = 0 THEN 0 ELSE 1)
                 ELSE Max(importLines)
        corr == IF ~Contains(c, "getRequestId") \/ ~Contains(c, "logResponse")
                THEN <<REQUIRED_IMPORTS.correlation>> ELSE <<>>
        rate == IF ~Contains(c, "globalRateLimitTracker")
                THEN <<REQUIRED_IMPORTS.rateLimit>> ELSE <<>>
        needResp == /\ \/ ~Contains(c, "standardErrorResponse")
                       \/ Contains(c, "errorResponse(")
                    /\ ~LineIn(c, REQUIRED_IMPORTS.response)
        lines == IF needResp /\ OldResponseLines(c) # {}
                 THEN [c EXCEPT ![Min(OldResponseLines(c))] =
                                    REQUIRED_IMPORTS.response]
                 ELSE c
        resp == IF needResp /\ OldResponseLines(c) = {}
                THEN <<REQUIRED_IMPORTS.response>> ELSE <<>>
        pag == IF isList /\ ~Contains(c, "parseStandardPaginationParams")
               THEN <<REQUIRED_IMPORTS.pagination>> ELSE <<>>
        imports_to_add == corr \o rate \o resp \o pag
        \* 'if imp not in content' tests the content as it was read
        fresh == SelectSeq(imports_to_add, LAMBDA imp : ~LineIn(c, imp))
    IN  InsertAfter(lines, after, fresh)

\* the four re.sub of the legacy error calls and the one of successResponse
OldErrorRewrite(t) ==
    IF t.k = "legacyErr" /\ t.quote \in {"single", "double"} /\ t.extra
       /\ t.problem = "notFound"
    THEN <<StdErr("standardErrorResponse", "NOT_FOUND", t.msg, TRUE, 404)>>
    ELSE IF t.k = "legacyErr" /\ t.quote \in {"single", "double"} /\ t.extra
            /\ t.problem = "badRequest"
    THEN <<StdErr("standardErrorResponse", "VALIDATION_ERROR", t.msg, TRUE, 400)>>
    ELSE IF t.k = "legacyErr" /\ t.quote \in {"single", "double"} /\ t.extra
            /\ t.problem = "internal"
    THEN <<StdErr("standardErrorResponse", "INTERNAL_ERROR", t.msg, TRUE, 500)>>
    ELSE IF t.k = "legacyErr" /\ t.quote # "none" /\ t.problem = "internal"
    THEN <<StdErr("standardErrorResponse", "INTERNAL_ERROR",
                  "An unexpected error occurred", TRUE, 500)>>
    ELSE IF t.k = "retSuccess" /\ t.nargs > 0
    THEN <<RetJson("headers")>>
    ELSE <<t>>

replace_old_error_functions(c) == FlatMap(c, OldErrorRewrite)

\* characters inspected after the opening brace: content[start_pos:start_pos+500]
GuardWindow == 500

\* number of characters from the end of token i to the end of token j
SpanLen(c, i, j) ==
    LET f[n \in i..j] == IF n = i THEN 0 ELSE f[n - 1] + TokLen(c[n])
    IN  f[j]

\* 'const requestId = getRequestId(request);' in content[start_pos:start_pos+500]
BoundInWindow(c, i) ==
    \E j \in (i + 1)..Len(c) :
        c[j].k = "bindReqId" /\ SpanLen(c, i, j) <= GuardWindow

\* rf'export async function {method}\s*\([^)]+\)\s*\{'
MethodMatches(c, m) ==
    {i \in 1..Len(c) : c[i].k = "fn" /\ c[i].m = m /\ c[i].params}

update_method_handler(c, m) ==
    IF MethodMatches(c, m) = {} THEN c
    ELSE LET i == Min(MethodMatches(c, m))
         IN  IF BoundInWindow(c, i) THEN c
             ELSE InsertAfter(c, i, <<BindReqId, BindStart>>)

\* r'const \{ tenantId, user \} = authResult;'
RateAnchor(t) ==
    /\ t.k = "destr"
    /\ t.var = "authResult"
    /\ t.pad = 1
    /\ t.fields = <<"tenantId", "user">>

key_suffix(m) ==
    CASE m = "GET" -> ""
      [] m = "POST" -> "_create"
      [] m \in {"PUT", "PATCH"} -> "_update"
      [] m = "DELETE" -> "_delete"
      [] OTHER -> ""

add_rate_limiting(c, m) ==
    LET anchors == {i \in 1..Len(c) : RateAnchor(c[i])}
    IN  IF anchors = {} THEN c
        ELSE IF Contains(c, "globalRateLimitTracker.trackRequest") THEN c
        ELSE InsertAfter(c, Min(anchors),
                 <<Rate(key_suffix(m), RATE_LIMITS(m)[1], RATE_LIMITS(m)[2])>>)

\* r'} catch \(error[^{]*\{([^}]*console\.error[^}]*)': the body of the catch
\* at i runs up to the first '}' after its brace
CatchBodyEnd(c, i) ==
    LET closers == {j \in (i + 1)..Len(c) : HasClose(c[j])}
    IN  IF closers = {} THEN Len(c) + 1 ELSE Min(closers)

CatchMatches(c, i) ==
    /\ c[i].k = "catch"
    /\ \E j \in (i + 1)..(CatchBodyEnd(c, i) - 1) : c[j].k = "consoleError"

\* 'logResponse' in catch_body: the body ends inside the token that holds
\* the first '}', so a logResponse call's text up to its '}' belongs to it
CatchBodyLogs(c, i) ==
    LET e == CatchBodyEnd(c, i)
    IN  e <= Len(c) /\ c[e].k = "logResponse"

add_logging_to_catch(c) ==
    LET Owner(j) == {i \in 1..(j - 1) : CatchMatches(c, i) /\ j < CatchBodyEnd(c, i)}
        f[j \in 0..Len(c)] ==
            IF j = 0 THEN <<>>
            ELSE f[j - 1] \o
                 (IF CatchMatches(c, j) THEN <<Catch(TRUE)>>
                  ELSE IF c[j].k = "consoleError" /\ Owner(j) # {}
                          /\ ~CatchBodyLogs(c, Max(Owner(j)))
                  THEN <<LogResponse, c[j]>>
                  ELSE <<c[j]>>)
    IN  f[Len(c)]

\* r'return NextResponse\.json\(([^)]+)\);'
ResponseHeaders(t) ==
    IF t.k = "retJson" /\ t.form = "inline" THEN <<RetJson("headers")>>
    ELSE <<t>>

update_response_headers(c) == FlatMap(c, ResponseHeaders)

\* lines 256-260: the file holds all markers and no legacy error call
AlreadyUpdated(c) ==
    /\ Contains(c, "getRequestId(request)")
    /\ Contains(c, "standardErrorResponse")
    /\ Contains(c, "addStandardHeaders")
    /\ ~Contains(c, "errorResponse(")

\* step 3 of update_file: the loop over the five methods
UpdateHandlers(c) ==
    LET f[n \in 0..Len(Methods)] ==
            IF n = 0 THEN c
            ELSE IF HasHandler(f[n - 1], Methods[n])
                 THEN add_rate_limiting(
                          update_method_handler(f[n - 1], Methods[n]),
                          Methods[n])
                 ELSE f[n - 1]
    IN  f[Len(Methods)]

\* the content update_file computes from the content it read
UpdatePipeline(c, isList) ==
    IF AlreadyUpdated(c) THEN c
    ELSE update_response_headers(
             add_logging_to_catch(
                 UpdateHandlers(
                     replace_old_error_functions(add_imports(c, isList)))))

(***************************************************************************)
(* migrate-endpoints.py                                                    *)
(***************************************************************************)
\* the two re.sub of update_imports look for  from '<module>' import { ... },
\* and the re.findall of the correlation import for an import line whose
\* module string ends in a blank: no import statement of a TypeScript file
\* has either shape, so only the NextResponse step can change the content
AddNextResponse(t) ==
    IF t = Imp("next/server", <<"NextRequest">>)
    THEN <<Imp("next/server", <<"NextRequest", "NextResponse">>)>>
    ELSE <<t>>

update_imports(c) ==
    IF ~Contains(c, "NextResponse") /\ Contains(c, "next/server")
    THEN FlatMap(c, AddNextResponse)
    ELSE c

\* the global guard, then re.sub at every
\* rf'export async function {handler_name}\([^)]+\)\s*\{'
CorrelateHandler(t, m) ==
    IF t.k = "fn" /\ t.m = m /\ t.params
    THEN <<t, BindReqId, BindStart>>
    ELSE <<t>>

add_request_correlation_to_handler(c, m) ==
    IF Contains(c, "const requestId = getRequestId(request)") THEN c
    ELSE LET F(t) == CorrelateHandler(t, m) IN FlatMap(c, F)

\* r'parsePaginationParams\(' and
\* r'buildPagedResponse\(([^,]+),\s*([^,]+),\s*([^,]+),\s*([^)]+)\)'
MigratePagination(t) ==
    IF t.k = "call" /\ t.name = "parsePaginationParams"
    THEN <<Call("parseStandardPaginationParams", t.args)>>
    ELSE IF t.k = "call" /\ t.name = "buildPagedResponse" /\ Len(t.args) >= 4
    THEN <<Call("buildStandardListResponse",
                t.args \o <<"baseUrl", "appliedFilters">>)>>
    ELSE <<t>>

update_pagination_calls(c) == FlatMap(c, MigratePagination)

\* [^'"]+ not found: the messages that end in ' not found'
EndsNotFound(msg) == msg \in {"Hotel not found"}

\* extract_error_message
extract_error_message(t) ==
    IF t.quote \in {"single", "double"} THEN t.msg ELSE "An error occurred"

MigrateError(t) ==
    IF t.k = "errIf" /\ t.var = "tenantResult" /\ t.ret = "errorResponse"
    THEN <<ErrIf(t.var, "standardAuth")>>
    ELSE IF t.k = "legacyErr" /\ t.problem = "notFound"
            /\ t.quote \in {"single", "double"} /\ EndsNotFound(t.msg)
    THEN <<StdErr("notFoundErrorResponse", "", t.msg, TRUE, 0)>>
    ELSE IF t.k = "legacyErr" /\ t.problem = "internal" /\ t.quote # "none"
    THEN <<StdErr("standardErrorResponse", "INTERNAL_ERROR",
                  extract_error_message(t), TRUE, 500)>>
    ELSE IF t.k = "retSuccess" /\ t.nargs = 1
    THEN <<RetJson("xreq")>>
    ELSE <<t>>

update_error_responses(c) == FlatMap(c, MigrateError)

\* line 274
AlreadyMigrated(c) ==
    Contains(c, "parseStandardPaginationParams") \/ Contains(c, "getRequestId")

\* lines 284-286
MigrateHandlers(c) ==
    LET f[n \in 0..Len(Methods)] ==
            IF n = 0 THEN c
            ELSE IF HasHandler(f[n - 1], Methods[n])
                 THEN add_request_correlation_to_handler(f[n - 1], Methods[n])
                 ELSE f[n - 1]
    IN  f[Len(Methods)]

\* the content migrate_endpoint computes from the content it read
MigratePipeline(c) ==
    IF AlreadyMigrated(c) THEN c
    ELSE update_error_responses(
             update_pagination_calls(MigrateHandlers(update_imports(c))))

(***************************************************************************)
(* apply-rbac.py                                                           *)
(***************************************************************************)
METHOD_TO_ACTION(m) ==
    CASE m = "GET" -> "read"
      [] m = "POST" -> "create"
      [] m = "PUT" -> "update"
      [] m = "PATCH" -> "update"
      [] m = "DELETE" -> "delete"

should_add_import(c) == ~Contains(c, "requirePermission")

should_replace_tenant(c) == Contains(c, "requireTenant")

ReplaceTenantImport(t) ==
    IF t = Imp("@/middleware/tenancy", <<"requireTenant">>)
    THEN <<Imp("@/middleware/permissions", <<"requirePermission">>)>>
    ELSE <<t>>

replace_import(c) == FlatMap(c, ReplaceTenantImport)

\* the end of a match of  import {...} from '@/...'  (one line or several)
AliasImportEnd(t) ==
    t.k \in {"import", "importFrom"} /\ t.from # "next/server"

add_import(c) ==
    LET ends == {i \in 1..Len(c) : AliasImportEnd(c[i])}
    IN  IF should_add_import(c) /\ ends # {}
        THEN InsertAfter(c, Max(ends),
                 <<Imp("@/middleware/permissions", <<"requirePermission">>)>>)
        ELSE c

\* auth_pattern matched from token p: the requireTenant call, the if block
\* on 'error', then text without '}' up to a destructure of a ...Result;
\* the value is the position of that destructure, 0 when there is no match
AuthBlockEnd(c, p) ==
    IF p + 2 <= Len(c) /\ c[p].k = "tenantCall" /\ c[p + 1].k = "errIf"
    THEN LET closers == {q \in (p + 2)..Len(c) : HasClose(c[q])}
         IN  IF closers # {} /\ c[Min(closers)].k = "destr"
             THEN Min(closers) ELSE 0
    ELSE 0

replace_auth_in_method(c, m, resource_name, action) ==
    LET methods == {i \in 1..Len(c) : c[i].k = "fn" /\ c[i].m = m}
    IN  IF methods = {} THEN c
        ELSE LET \* method_pattern ends with [^{]*: method_start lies at the
                 \* first '{' after the handler's own
                 opens == {j \in (Min(methods) + 1)..Len(c) : HasOpen(c[j])}
                 method_start == IF opens = {} THEN Len(c) ELSE Min(opens)
                 blocks == {p \in (method_start + 1)..Len(c) :
                               AuthBlockEnd(c, p) # 0}
             IN  IF blocks = {} THEN c
                 ELSE LET p == Min(blocks)
                          q == AuthBlockEnd(c, p)
                      IN  ReplaceRange(c, p, q,
                              <<PermCall(resource_name, action),
                                ErrIf("authResult", "error"),
                                Destr(c[q].fields, "authResult", c[q].pad + 1)>>)

\* lines 166-168
RbacHandlers(c, resource_name) ==
    LET f[n \in 0..Len(Methods)] ==
            IF n = 0 THEN c
            ELSE IF HasHandler(f[n - 1], Methods[n])
                 THEN replace_auth_in_method(f[n - 1], Methods[n], resource_name,
                                             METHOD_TO_ACTION(Methods[n]))
                 ELSE f[n - 1]
    IN  f[Len(Methods)]

\* the content process_file computes from the content it read
RbacPipeline(c, resource_name) ==
    RbacHandlers(IF should_replace_tenant(c) THEN replace_import(c)
                 ELSE add_import(c),
                 resource_name)

(***************************************************************************)
(* fix-all-methods.py                                                      *)
(***************************************************************************)
METHOD_ACTIONS(m) ==
    CASE m = "GET" -> "read"
      [] m = "POST" -> "create"
      [] m = "PUT" -> "update"
      [] m = "PATCH" -> "update"
      [] m = "DELETE" -> "delete"

\* method_pattern: the declaration of the method, then [\s\S]*? up to the
\* first requirePermission(request, '<resource>', '<action>'
fix_method_in_content(c, m, correct_action, resource) ==
    LET calls(i) == {p \in (i + 1)..Len(c) :
                        c[p].k = "permCall" /\ c[p].res = resource}
        decls == {i \in 1..Len(c) :
                     c[i].k = "fn" /\ c[i].m = m /\ calls(i) # {}}
    IN  IF decls = {} THEN c
        ELSE LET p == Min(calls(Min(decls)))
             IN  IF c[p].act # correct_action
                 THEN [c EXCEPT ![p] = PermCall(resource, correct_action)]
                 ELSE c

\* lines 91-100: content and changes_made after the loop over the methods
FixHandlers(c, resource) ==
    LET f[n \in 0..Len(Methods)] ==
            IF n = 0 THEN [c |-> c, changes_made |-> FALSE]
            ELSE LET new_content ==
                         fix_method_in_content(f[n - 1].c, Methods[n],
                             METHOD_ACTIONS(Methods[n]), resource)
                 IN  IF HasHandler(f[n - 1].c, Methods[n])
                        /\ new_content # f[n - 1].c
                     THEN [c |-> new_content, changes_made |-> TRUE]
                     ELSE f[n - 1]
    IN  f[Len(Methods)]

(***************************************************************************)
(* Sample route files                                                      *)
(***************************************************************************)
\* the legacy tenant-only authorization block
TenantBlock ==
    << TenantCall("tenantResult"), ErrIf("tenantResult", "errorResponse"),
       Destr(<<"tenantId", "user">>, "tenantResult", 1) >>

\* the permission-checked authorization block
PermBlock(resource, action) ==
    << PermCall(resource, action), ErrIf("authResult", "error"),
       Destr(<<"tenantId", "user">>, "authResult", 1) >>

\* the response and the catch block that end a handler's try
TryTail(quote) ==
    << RetJson("inline"), Catch(TRUE), ConsoleError,
       LegacyErr("internal", quote, "Failed", FALSE), Close >>

\* the bodies a handler can have
BodyPublic == <<Try>> \o TryTail("single")
BodyTenant == <<Try>> \o TenantBlock \o TryTail("single")
BodyTenantFirst == TenantBlock \o <<Try>> \o TryTail("single")
BodyPerm(action) == <<Try>> \o PermBlock("users", action) \o TryTail("single")
BodyBound ==
    <<BindReqId, BindStart, Try>> \o PermBlock("users", "read") \o TryTail("single")
BodyRaises == <<Try>> \o TryTail("expr")

Handler(m, params, body) == <<Fn(m, params)>> \o body \o <<End>>

\* the import sections a file can have, each with its closing empty line
HeadLegacy ==
    << Imp("next/server", <<"NextRequest", "NextResponse">>),
       Imp("@/lib/db", <<"query">>),
       Imp("@/middleware/tenancy", <<"requireTenant">>),
       Imp("@/lib/response", <<"errorResponse", "internalServerErrorProblem">>),
       Blank >>
HeadPartial ==
    << Imp("next/server", <<"NextRequest", "NextResponse">>),
       Imp("@/middleware/correlation", <<"getRequestId">>),
       Imp("@/lib/response", <<"standardErrorResponse", "ErrorCodes">>),
       Blank >>
HeadStandard ==
    << Imp("next/server", <<"NextRequest", "NextResponse">>),
       REQUIRED_IMPORTS.correlation, REQUIRED_IMPORTS.rateLimit,
       REQUIRED_IMPORTS.response, REQUIRED_IMPORTS.pagination,
       Imp("@/middleware/permissions", <<"requirePermission">>),
       Blank >>
HeadPhase1 == PHASE1_IMPORTS \o <<Blank>>
\* imports that no script knows: a package, and a further symbol on the
\* '@/lib/response' line
HeadExtra ==
    << Imp("next/server", <<"NextRequest", "NextResponse">>),
       Imp("zod", <<"z">>),
       Imp("@/lib/response", <<"errorResponse", "createdResponse">>),
       Blank >>
Heads == {HeadLegacy, HeadPartial, HeadStandard, HeadPhase1, HeadExtra}

FileQuiet == Handler("GET", FALSE, <<Code(60)>>)
FileLegacy ==
    HeadLegacy \o Handler("GET", TRUE, BodyTenant)
               \o Handler("POST", TRUE, BodyTenant)
FilePermGet == HeadLegacy \o Handler("GET", TRUE, BodyPerm("read"))
FileRaises == HeadLegacy \o Handler("POST", TRUE, BodyRaises)
FilePermRead ==
    HeadStandard \o Handler("GET", TRUE, BodyPerm("read"))
                 \o Handler("POST", TRUE, BodyPerm("read"))
FilePermMixed ==
    HeadStandard \o Handler("GET", TRUE, BodyPublic)
                 \o Handler("POST", TRUE, BodyPerm("create"))

\* a reports route file with a permission call of the wrong action
FileReports ==
    HeadStandard \o Handler("POST", TRUE,
                        <<Try>> \o PermBlock("reports", "read")
                                \o TryTail("single"))

(***************************************************************************)
(* The batch run: main of each script, one loop iteration per step         *)
(***************************************************************************)
Scripts == {"phase1", "update", "migrate", "rbac", "fix"}

\* longest task list of a run
MaxTasks == 2

\* what the file system does when a file is opened, read or written:
\*   "ok"; "readErr" the read raises; "openErr" opening for writing raises;
\*   "partial" the write raises after the file was truncated, leaving a
\*   prefix of the new content
IOResults == {"ok", "readErr", "openErr", "partial"}

WriteFails(io) == io \in {"openErr", "partial"}

\* the content a path holds after  open(path, 'w'); f.write(new)
Persisted(old, new, io) ==
    CASE io = "openErr" -> old
      [] io = "partial" -> SubSeq(new, 1, Len(new) \div 2)
      [] OTHER -> new

\* the result of processing one task: the line printed for the file, the
\* value returned to main, whether the path was opened for reading and for
\* writing, the content the path holds afterwards, and whether an exception
\* left the function
Result(line, ret, read, wrote, c, raised) ==
    [line |-> line, ret |-> ret, read |-> read, wrote |-> wrote, c |-> c,
     raised |-> raised]

\* apply-phase1-standards.py process_file: no try/except; out is what the
\* transformations of lines 187-200 give for the content read
Phase1ProcessFile(file, out, io) ==
    IF ~file.exists
    THEN Result("NotFound", FALSE, FALSE, FALSE, file.c, FALSE)
    ELSE IF io = "readErr"
    THEN Result("None", FALSE, TRUE, FALSE, file.c, TRUE)
    ELSE IF out.raised
    THEN Result("None", FALSE, TRUE, FALSE, file.c, TRUE)
    ELSE IF out.c # file.c
    THEN IF WriteFails(io)
         THEN Result("None", FALSE, TRUE, TRUE,
                     Persisted(file.c, out.c, io), TRUE)
         ELSE Result("Updated", TRUE, TRUE, TRUE, out.c, FALSE)
    ELSE Result("Unchanged", FALSE, TRUE, FALSE, file.c, FALSE)

\* update-phase1-endpoints.py: the existence test of main, then update_file;
\* out is what steps 1-5 give for the content read
UpdateFile(file, out, io) ==
    IF ~file.exists
    THEN Result("NotFound", FALSE, FALSE, FALSE, file.c, FALSE)
    ELSE IF io = "readErr"
    THEN Result("Failed", FALSE, TRUE, FALSE, file.c, FALSE)
    ELSE IF AlreadyUpdated(file.c)
    THEN Result("AlreadyUpdated", FALSE, TRUE, FALSE, file.c, FALSE)
    ELSE IF out # file.c
    THEN IF WriteFails(io)
         THEN Result("Failed", FALSE, TRUE, TRUE,
                     Persisted(file.c, out, io), FALSE)
         ELSE Result("Updated", TRUE, TRUE, TRUE, out, FALSE)
    ELSE Result("Unchanged", FALSE, TRUE, FALSE, file.c, FALSE)

\* migrate-endpoints.py migrate_endpoint; out is what the transformations
\* of lines 280-289 give for the content read
MigrateEndpoint(file, out, io) ==
    IF ~file.exists
    THEN Result("NotFound", FALSE, FALSE, FALSE, file.c, FALSE)
    ELSE IF io = "readErr"
    THEN Result("Failed", FALSE, TRUE, FALSE, file.c, FALSE)
    ELSE IF AlreadyMigrated(file.c)
    THEN Result("AlreadyMigrated", TRUE, TRUE, FALSE, file.c, FALSE)
    ELSE IF out # file.c
    THEN IF WriteFails(io)
         THEN Result("Failed", FALSE, TRUE, TRUE,
                     Persisted(file.c, out, io), FALSE)
         ELSE Result("Updated", TRUE, TRUE, TRUE, out, FALSE)
    ELSE Result("Unchanged", TRUE, TRUE, FALSE, file.c, FALSE)

\* apply-rbac.py.  The first directory below /api/ of a route file is written
\* as one or two pieces of text, <<"auth">> or <<"auth", "ors">> (authors): the
\* pieces are cut so that a SKIP_PATHS entry occurs in /api/<segment> exactly
\* when it is the first piece
SKIP_PATHS == {"auth", "health", "roles", "audit-logs"}

\* RESOURCE_MAP.get('/api/' + name), "None" for a missing key
ResourceOf(name) ==
    CASE name \in {"quotations", "clients", "bookings", "invoices",
                      "reports", "users", "agents", "providers", "requests",
                      "finance", "admin", "dashboard"} -> name
      [] name \in {"hotels", "guides", "vehicles", "restaurants",
                      "transfers", "suppliers", "entrance-fees",
                      "daily-tours", "extra-expenses"} -> "providers"
      [] name \in {"hotel-pricing", "guide-pricing", "vehicle-pricing",
                      "tour-pricing", "entrance-fee-pricing"} -> "pricing"
      [] OTHER -> "None"

RESOURCE_MAP(segment) ==
    IF Len(segment) = 1 THEN ResourceOf(segment[1]) ELSE "None"

\* a variant of get_resource_from_path that leaves out the skip test and
\* gives an unmapped path a default resource
get_resource_without_skip(segment) ==
    IF RESOURCE_MAP(segment) = "None" THEN "admin" ELSE RESOURCE_MAP(segment)

\* the resource of the path .../api/<segment>/..., "None" for a skipped or
\* unmapped one
get_resource_from_path(segment) ==
    IF \E skip \in SKIP_PATHS : skip = segment[1] THEN "None"
    ELSE RESOURCE_MAP(segment)

\* apply-rbac.py process_file; out is what steps 1-2 give for the content read
RbacProcessFile(file, out, io) ==
    IF ~file.exists \/ io = "readErr"
    THEN Result("Failed", FALSE, file.exists, FALSE, file.c, FALSE)
    ELSE IF out # file.c
    THEN IF WriteFails(io)
         THEN Result("Failed", FALSE, TRUE, TRUE,
                     Persisted(file.c, out, io), FALSE)
         ELSE Result("Updated", TRUE, TRUE, TRUE, out, FALSE)
    ELSE Result("Unchanged", FALSE, TRUE, FALSE, file.c, FALSE)

\* fix-all-methods.py process_file; out is content and changes_made after
\* the loop of lines 95-100
FixProcessFile(file, out, io) ==
    IF ~file.exists
    THEN Result("NotFound", FALSE, FALSE, FALSE, file.c, FALSE)
    ELSE IF io = "readErr"
    THEN Result("Failed", FALSE, TRUE, FALSE, file.c, FALSE)
    ELSE IF ~Contains(file.c, "requirePermission")
    THEN Result("None", FALSE, TRUE, FALSE, file.c, FALSE)
    ELSE IF out.changes_made
    THEN IF WriteFails(io)
         THEN Result("Failed", FALSE, TRUE, TRUE,
                     Persisted(file.c, out.c, io), FALSE)
         ELSE Result("Updated", TRUE, TRUE, TRUE, out.c, FALSE)
    ELSE Result("Unchanged", FALSE, TRUE, FALSE, file.c, FALSE)

Missing == [exists |-> FALSE, c |-> <<>>]
Present(c) == [exists |-> TRUE, c |-> c]
Meta(segment, isList, resource) ==
    [segment |-> segment, isList |-> isList, resource |-> resource]
Task(meta, file) == [meta |-> meta, file |-> file]

\* the paths a script works through.  A path is written <<where it comes
\* from, its rank there>>.
\* a variant of rglob that yields the first file found again and again
rglob_repeating(dir, count) == [i \in 1..count |-> <<dir, 1>>]

\* Path.rglob('route.ts') below dir when it holds count route files: every
\* file found is yielded once
rglob(dir, count) == [i \in 1..count |-> <<dir, i>>]

\* the first n entries of the list of paths written out in a script
\* (FILES_TO_UPDATE, endpoints, ENDPOINTS_TO_MIGRATE, FILES_AND_RESOURCES):
\* no path is written twice, and none of FILES_AND_RESOURCES lies below
\* the reports directory
Listed(n) == [i \in 1..n |-> <<"listed", i>>]

\* the paths of a run over n tasks, scanned of them found by the scan of
\* the reports directory that extends FILES_AND_RESOURCES
TaskPaths(scr, n, scanned) ==
    CASE scr = "rbac" -> rglob("api", n)
      [] scr = "fix" -> Listed(n - scanned) \o rglob("reports", scanned)
      [] OTHER -> Listed(n)

WithPath(meta, path) ==
    [segment |-> meta.segment, isList |-> meta.isList,
     resource |-> meta.resource, path |-> path]

\* the tasks a run of each script can meet: an entry of its static list (or
\* of its directory scan) and what the path holds
TaskChoices(scr) ==
    CASE scr = "phase1" ->
            {Task(Meta(<<"hotels">>, TRUE, "hotel"), f) :
                f \in {Missing, Present(FileQuiet), Present(FilePermGet),
                       Present(FileRaises)}}
      [] scr = "update" ->
            {Task(Meta(<<"hotels">>, TRUE, "hotel"), f) :
                f \in {Missing, Present(FileLegacy),
                       Present(UpdatePipeline(FileLegacy, TRUE)),
                       Present(UpdatePipeline(FilePermGet, TRUE))}}
      [] scr = "migrate" ->
            {Task(Meta(<<"hotels">>, TRUE, "hotel"), f) :
                f \in {Missing, Present(FileLegacy), Present(FileQuiet),
                       Present(MigratePipeline(FileLegacy))}}
      [] scr = "rbac" ->
            {Task(Meta(<<"auth">>, TRUE, "None"), Present(FileLegacy)),
             Task(Meta(<<"auth", "ors">>, TRUE, "None"), Present(FileLegacy)),
             Task(Meta(<<"webhooks">>, TRUE, "None"), Present(FileLegacy)),
             Task(Meta(<<"users">>, TRUE, "users"), Present(FileLegacy)),
             Task(Meta(<<"users">>, FALSE, "users"), Present(FilePermRead)),
             Task(Meta(<<"hotels">>, TRUE, "providers"), Present(FileLegacy))}
      [] scr = "fix" ->
            {Task(Meta(<<"users">>, TRUE, "users"), f) :
                f \in {Missing, Present(FileQuiet), Present(FilePermRead),
                       Present(FilePermMixed),
                       Present(FixHandlers(FilePermRead, "users").c)}}
              \cup {Task(Meta(<<"reports">>, FALSE, "reports"), f) :
                        f \in {Present(FileQuiet), Present(FileReports)}}

NoCounts == [updated |-> 0, failed |-> 0, skipped |-> 0, processed |-> 0]

\* the rule run does not take part in a batch run
RuleIdle ==
    /\ rule = "none"
    /\ ctx = [isList |-> FALSE, resource |-> "None", method |-> "GET"]
    /\ input = <<>>
    /\ prev = <<>>
    /\ content = <<>>
    /\ runs = 0
    /\ err = FALSE

Init ==
    /\ script \in Scripts
    /\ \E n \in 1..MaxTasks :
        \E scanned \in IF script = "fix" THEN 0..n ELSE {0} :
        \E ch \in [1..n -> TaskChoices(script)] :
            /\ \A i \in 1..n :
                (ch[i].meta.resource = "reports") <=> (i > n - scanned)
            /\ tasks = [i \in 1..n |->
                          WithPath(ch[i].meta,
                                   TaskPaths(script, n, scanned)[i])]
            /\ fs = [i \in 1..n |-> ch[i].file]
    /\ fs0 = fs
    /\ idx = 0
    /\ pc = "run"
    /\ outcomes = <<>>
    /\ reads = <<>>
    /\ writes = <<>>
    /\ counts = NoCounts
    /\ RuleIdle

\* the effect of one call of a script's per-file function on task idx + 1
Step(r) ==
    /\ fs' = [fs EXCEPT ![idx + 1].c = r.c]
    /\ reads' = IF r.read THEN Append(reads, idx + 1) ELSE reads
    /\ writes' = IF r.wrote THEN Append(writes, idx + 1) ELSE writes
    /\ IF r.raised
       THEN pc' = "crashed" /\ idx' = idx /\ outcomes' = outcomes
       ELSE pc' = pc /\ idx' = idx + 1 /\ outcomes' = Append(outcomes, r.line)

Bump(b) == IF b THEN 1 ELSE 0

\* apply-phase1-standards.py main, lines 221-224
Phase1Main ==
    /\ script = "phase1" /\ pc = "run" /\ idx < Len(tasks)
    /\ LET out == Phase1Pipeline(fs[idx + 1].c)
       IN  \E io \in IOResults :
        LET r == Phase1ProcessFile(fs[idx + 1], out, io)
        IN  /\ Step(r)
            /\ counts' = [counts EXCEPT !.updated = @ + Bump(r.ret)]
    /\ UNCHANGED <<script, tasks, fs0, ruleVars>>

\* update-phase1-endpoints.py main, lines 386-395
UpdateMain ==
    /\ script = "update" /\ pc = "run" /\ idx < Len(tasks)
    /\ LET out == UpdatePipeline(fs[idx + 1].c, tasks[idx + 1].isList)
       IN  \E io \in IOResults :
        LET r == UpdateFile(fs[idx + 1], out, io)
        IN  /\ Step(r)
            /\ counts' =
                IF ~fs[idx + 1].exists
                THEN [counts EXCEPT !.failed = @ + 1]
                ELSE IF r.ret THEN [counts EXCEPT !.updated = @ + 1]
                ELSE [counts EXCEPT !.skipped = @ + 1]
    /\ UNCHANGED <<script, tasks, fs0, ruleVars>>

\* migrate-endpoints.py main, lines 314-323
MigrateMain ==
    /\ script = "migrate" /\ pc = "run" /\ idx < Len(tasks)
    /\ LET out == MigratePipeline(fs[idx + 1].c)
       IN  \E io \in IOResults :
        LET r == MigrateEndpoint(fs[idx + 1], out, io)
        IN  /\ Step(r)
            /\ counts' =
                IF r.ret THEN [counts EXCEPT !.updated = @ + 1]
                ELSE IF fs[idx + 1].exists
                THEN [counts EXCEPT !.failed = @ + 1]
                ELSE [counts EXCEPT !.skipped = @ + 1]
    /\ UNCHANGED <<script, tasks, fs0, ruleVars>>

\* apply-rbac.py main, lines 200-212
RbacMain ==
    /\ script = "rbac" /\ pc = "run" /\ idx < Len(tasks)
    /\ LET resource == get_resource_from_path(tasks[idx + 1].segment)
       IN  IF resource = "None"
           THEN /\ Step(Result("Skipped", FALSE, FALSE, FALSE,
                               fs[idx + 1].c, FALSE))
                /\ counts' = [counts EXCEPT !.skipped = @ + 1]
           ELSE LET out == RbacPipeline(fs[idx + 1].c, resource)
                IN  \E io \in IOResults :
                LET r == RbacProcessFile(fs[idx + 1], out, io)
                IN  /\ Step(r)
                    /\ counts' = [counts EXCEPT
                                    !.updated = @ + Bump(r.ret),
                                    !.processed = @ + 1]
    /\ UNCHANGED <<script, tasks, fs0, ruleVars>>

\* fix-all-methods.py main, lines 121-123
FixMain ==
    /\ script = "fix" /\ pc = "run" /\ idx < Len(tasks)
    /\ LET out == FixHandlers(fs[idx + 1].c, tasks[idx + 1].resource)
       IN  \E io \in IOResults :
        LET r == FixProcessFile(fs[idx + 1], out, io)
        IN  /\ Step(r)
            /\ counts' = [counts EXCEPT !.updated = @ + Bump(r.ret)]
    /\ UNCHANGED <<script, tasks, fs0, ruleVars>>

\* the loop of main has ended: the summary is printed
Summary ==
    /\ pc = "run" /\ idx = Len(tasks)
    /\ pc' = "done"
    /\ UNCHANGED <<script, tasks, fs, fs0, idx, outcomes, reads, writes,
                   counts, ruleVars>>

Next ==
    \/ Phase1Main
    \/ UpdateMain
    \/ MigrateMain
    \/ RbacMain
    \/ FixMain
    \/ Summary

Spec == Init /\ [][Next]_vars

(***************************************************************************)
(* The rule run: one rule or one per-file pipeline applied again and again *)
(* to a file content drawn from a bounded family                           *)
(***************************************************************************)
MaxHandlers == 2
MaxRuns == 2

SampleMethods == {"GET", "POST", "DELETE"}
Bodies == {BodyPublic, BodyTenant, BodyPerm("read"), BodyBound}

\* the handlers of a file one after the other
Concat(hs) ==
    LET f[i \in 0..Len(hs)] == IF i = 0 THEN <<>> ELSE f[i - 1] \o hs[i]
    IN  f[Len(hs)]

\* up to MaxHandlers handlers of distinct methods, in every textual order
HandlerFiles ==
    UNION {
        { Concat([i \in 1..n |-> Handler(ms[i], TRUE, bs[i])]) :
            ms \in {x \in [1..n -> SampleMethods] :
                        \A i, j \in 1..n : x[i] = x[j] => i = j},
            bs \in [1..n -> Bodies] } :
        n \in 1..MaxHandlers }

\* a list handler: it parses the pagination parameters and builds the paged
\* response from the given arguments
ArgNames == <<"rows", "total", "page", "limit", "sort">>
ArgLists == {SubSeq(ArgNames, 1, n) : n \in 1..Len(ArgNames)}
BodyList(args) ==
    <<Try, Call("parsePaginationParams", <<"searchParams">>),
      Call("buildPagedResponse", args)>> \o TryTail("single")
PaginationFiles ==
    {HeadLegacy \o Handler("GET", TRUE, BodyList(args)) : args \in ArgLists}

\* a lookup handler: it answers a missing row with
\*   return errorResponse(notFoundProblem('<msg>'));            or
\*   return errorResponse(notFoundProblem('<msg>', '<path>'));  (extra)
BodyLookup(msg, extra) ==
    <<Try, LegacyErr("notFound", "single", msg, extra)>> \o TryTail("single")
NotFoundFiles ==
    {HeadLegacy \o Handler("GET", TRUE, BodyLookup(msg, extra)) :
        msg \in {"Hotel not found", "No such hotel"}, extra \in BOOLEAN}

\* a handler whose catch block holds the given calls before its return:
\* catch (error) or catch (error: any), one or two console.error calls,
\* a logResponse call before or after them
BodyCatch(typed, calls) ==
    <<Try, RetJson("inline"), Catch(typed)>> \o calls
        \o <<LegacyErr("internal", "single", "Failed", FALSE), Close>>
CatchCalls ==
    { <<ConsoleError>>, <<ConsoleError, ConsoleError>>,
      <<LogResponse, ConsoleError>>, <<ConsoleError, LogResponse>> }
LoggingFiles ==
    {HeadLegacy \o Handler("GET", TRUE, BodyCatch(typed, calls)) :
        typed \in BOOLEAN, calls \in CatchCalls}

\* a file whose handler is declared without parameters:
\* export async function GET() {
ParamlessFiles == {HeadLegacy \o Handler("GET", FALSE, BodyPublic)}

Inputs ==
    {h \o Handler("GET", TRUE, BodyTenant) : h \in Heads}
        \cup {HeadLegacy \o hs : hs \in HandlerFiles}
        \cup PaginationFiles
        \cup NotFoundFiles
        \cup LoggingFiles
        \cup ParamlessFiles

PipelineRules == {"phase1.process_file", "update_file", "migrate_endpoint",
                  "rbac.process_file"}
ImportRules == {"add_imports", "apply_phase1_imports"}
CorrelationRules == {"add_request_tracking_to_get", "update_method_handler",
                     "add_request_correlation_to_handler"}
RateRules == {"add_rate_limiting"}
\* the rules that are called with a method name
MethodRules ==
    {"update_method_handler", "add_request_correlation_to_handler",
     "add_rate_limiting"}
PaginationRules == {"replace_pagination_calls", "update_pagination_calls"}
ErrorRules == {"replace_old_error_functions", "update_error_responses"}

RbacImportRules == {"rbac.imports"}

LoggingRules == {"add_logging_to_catch"}

\* apply-rbac.py run on a file, then a rate-limit rule of another script
ChainRules == {"rbac.then.add_rate_limiting",
               "rbac.then.add_request_tracking_to_get"}

\* fix-all-methods.py process_file
FixRules == {"fix.process_file"}

RuleNames ==
    PipelineRules \cup ImportRules \cup CorrelationRules \cup RateRules
        \cup PaginationRules \cup ErrorRules \cup RbacImportRules
        \cup LoggingRules \cup ChainRules \cup FixRules

\* the batch run does not take part in a rule run
BatchIdle ==
    /\ script = "none"
    /\ tasks = <<>>
    /\ fs = <<>>
    /\ fs0 = <<>>
    /\ idx = 0
    /\ pc = "idle"
    /\ outcomes = <<>>
    /\ reads = <<>>
    /\ writes = <<>>
    /\ counts = NoCounts

InitRules ==
    /\ rule \in RuleNames
    /\ \E l \in IF rule \in {"add_imports", "update_file"}
                THEN BOOLEAN ELSE {FALSE} :
        \E m \in IF rule \in MethodRules THEN SampleMethods ELSE {"GET"} :
            ctx = [isList |-> l, resource |-> "users", method |-> m]
    /\ input \in Inputs
    /\ prev = input
    /\ content = input
    /\ runs = 0
    /\ err = FALSE
    /\ BatchIdle

\* one more application of the rule to the current content
Apply(out) ==
    /\ prev' = content
    /\ content' = out
    /\ runs' = runs + 1
    /\ err' = FALSE
    /\ UNCHANGED <<rule, ctx, input, batchVars>>

CanApply(r) == rule = r /\ runs < MaxRuns /\ ~err

\* apply-phase1-standards.py process_file, lines 187-200
ApplyPhase1 ==
    /\ CanApply("phase1.process_file")
    /\ LET out == Phase1Pipeline(content)
       IN  IF out.raised
           THEN /\ err' = TRUE
                /\ UNCHANGED <<rule, ctx, input, prev, content, runs,
                               batchVars>>
           ELSE Apply(out.c)

\* update-phase1-endpoints.py update_file, lines 256-282
ApplyUpdate ==
    /\ CanApply("update_file")
    /\ Apply(UpdatePipeline(content, ctx.isList))

\* migrate-endpoints.py migrate_endpoint, lines 274-289
ApplyMigrate ==
    /\ CanApply("migrate_endpoint")
    /\ Apply(MigratePipeline(content))

\* apply-rbac.py process_file, lines 157-168
ApplyRbac ==
    /\ CanApply("rbac.process_file")
    /\ Apply(RbacPipeline(content, ctx.resource))

ApplyAddImports ==
    /\ CanApply("add_imports")
    /\ Apply(add_imports(content, ctx.isList))

ApplyPhase1Imports ==
    /\ CanApply("apply_phase1_imports")
    /\ Apply(apply_phase1_imports(content))

ApplyTrackGet ==
    /\ CanApply("add_request_tracking_to_get")
    /\ Apply(add_request_tracking_to_get(content))

ApplyUpdateMethod ==
    /\ CanApply("update_method_handler")
    /\ Apply(update_method_handler(content, ctx.method))

ApplyCorrelate ==
    /\ CanApply("add_request_correlation_to_handler")
    /\ Apply(add_request_correlation_to_handler(content, ctx.method))

ApplyRateLimit ==
    /\ CanApply("add_rate_limiting")
    /\ Apply(add_rate_limiting(content, ctx.method))

ApplyReplacePagination ==
    /\ CanApply("replace_pagination_calls")
    /\ Apply(replace_pagination_calls(content))

ApplyUpdatePagination ==
    /\ CanApply("update_pagination_calls")
    /\ Apply(update_pagination_calls(content))

ApplyReplaceOldErrors ==
    /\ CanApply("replace_old_error_functions")
    /\ Apply(replace_old_error_functions(content))

ApplyUpdateErrors ==
    /\ CanApply("update_error_responses")
    /\ Apply(update_error_responses(content))

\* apply-rbac.py process_file, step 1 (lines 159-163)
ApplyRbacImports ==
    /\ CanApply("rbac.imports")
    /\ Apply(IF should_replace_tenant(content) THEN replace_import(content)
             ELSE add_import(content))

\* update-phase1-endpoints.py update_file, line 283
ApplyAddLogging ==
    /\ CanApply("add_logging_to_catch")
    /\ Apply(add_logging_to_catch(content))

\* apply-rbac.py process_file on the file, then add_rate_limiting of
\* update-phase1-endpoints.py on what it wrote
ApplyRbacThenRateLimit ==
    /\ CanApply("rbac.then.add_rate_limiting")
    /\ IF runs = 0 THEN Apply(RbacPipeline(content, ctx.resource))
       ELSE Apply(add_rate_limiting(content, ctx.method))

\* apply-rbac.py process_file on the file, then add_request_tracking_to_get
\* of apply-phase1-standards.py on what it wrote
ApplyRbacThenTrackGet ==
    /\ CanApply("rbac.then.add_request_tracking_to_get")
    /\ IF runs = 0 THEN Apply(RbacPipeline(content, ctx.resource))
       ELSE Apply(add_request_tracking_to_get(content))

\* fix-all-methods.py process_file, lines 86-105: the content the file
\* holds afterwards
ApplyFix ==
    /\ CanApply("fix.process_file")
    /\ LET out == FixHandlers(content, ctx.resource)
       IN  Apply(IF Contains(content, "requirePermission") /\ out.changes_made
                 THEN out.c ELSE content)

NextRules ==
    \/ ApplyPhase1
    \/ ApplyUpdate
    \/ ApplyMigrate
    \/ ApplyRbac
    \/ ApplyAddImports
    \/ ApplyPhase1Imports
    \/ ApplyTrackGet
    \/ ApplyUpdateMethod
    \/ ApplyCorrelate
    \/ ApplyRateLimit
    \/ ApplyAddLogging
    \/ ApplyRbacThenRateLimit
    \/ ApplyRbacThenTrackGet
    \/ ApplyFix
    \/ ApplyReplacePagination
    \/ ApplyUpdatePagination
    \/ ApplyReplaceOldErrors
    \/ ApplyUpdateErrors
    \/ ApplyRbacImports

SpecRules == InitRules /\ [][NextRules]_vars

(***************************************************************************)
(* Properties                                                              *)
(***************************************************************************)
Range(s) == {s[i] : i \in 1..Len(s)}

\* the handler of method m in content c: from its declaration to its closing }
HandlerStart(c, m) == CHOOSE i \in 1..Len(c) : c[i].k = "fn" /\ c[i].m = m
HandlerEnd(c, m) ==
    Min({j \in HandlerStart(c, m)..Len(c) : c[j].k = "end"})
HandlerOf(c, m) == SubSeq(c, HandlerStart(c, m), HandlerEnd(c, m))
HandlersIn(c) == {m \in MethodSet : HasHandler(c, m)}

\* the tokens of c of the given kinds, in order
OfKind(c, kinds) == SelectSeq(c, LAMBDA t : t.k \in kinds)

\* the outcome lines that report a file left as it was
UnchangedLines ==
    {"Unchanged", "AlreadyUpdated", "AlreadyMigrated", "None"}

\* what the running script's transformations give for the content task i
\* had at the start of the run
FinalOutput(i) ==
    CASE script = "phase1" -> Phase1Pipeline(fs0[i].c).c
      [] script = "update" -> UpdatePipeline(fs0[i].c, tasks[i].isList)
      [] script = "migrate" -> MigratePipeline(fs0[i].c)
      [] script = "rbac" ->
            RbacPipeline(fs0[i].c, get_resource_from_path(tasks[i].segment))
      [] script = "fix" -> FixHandlers(fs0[i].c, tasks[i].resource).c

\* the run met an input/output failure: a file reported as failed, or an
\* abort that the transformations of the file at hand do not explain
IOFailure ==
    \/ "Failed" \in Range(outcomes)
    \/ pc = "crashed" /\ ~Phase1Pipeline(fs0[idx + 1].c).raised

\* C1: for each per-file pipeline and every content C,
\* pipeline(pipeline(C)) = pipeline(C): the second run of a pipeline leaves
\* the output of the first run as it is
C1_PipelineIdempotent ==
    (rule \in PipelineRules /\ runs >= 2) => content = prev

\* C2: an exception raised while a file is read, transformed or written never
\* ends the run: the loop goes on to the later tasks, and when the summary is
\* printed every task has been handled
C2_FailureIsolated ==
    /\ pc # "crashed"
    /\ pc = "done" => Len(outcomes) = Len(tasks)

\* C3: in a run without input/output failure, a task whose path does not
\* exist is reported as not found and is never read or written, every other
\* task gets an outcome of the updated or unchanged kind by the end of the
\* run, and there are as many not-found outcomes as missing paths
C3_MissingFileHandled ==
    (~IOFailure /\ \E i \in 1..Len(tasks) : ~fs0[i].exists) =>
        /\ \A i \in 1..Len(outcomes) :
                ~fs0[i].exists <=> outcomes[i] = "NotFound"
        /\ \A i \in 1..Len(tasks) :
                ~fs0[i].exists => i \notin Range(reads) \cup Range(writes)
        /\ pc \in {"done", "crashed"} =>
                \A i \in 1..Len(tasks) :
                    /\ i <= Len(outcomes)
                    /\ fs0[i].exists =>
                        outcomes[i] \in UnchangedLines \cup {"Updated", "Skipped"}

\* C4: a file is written, and reported as updated, exactly when the output of
\* the transformations differs from the content read; when they are equal the
\* file is not written and is reported as unchanged
C4_WriteOnlyOnChange ==
    \A i \in 1..Len(outcomes) :
        /\ i \in Range(writes) => FinalOutput(i) # fs0[i].c
        /\ outcomes[i] = "Updated" =>
                i \in Range(writes) /\ FinalOutput(i) # fs0[i].c
        /\ outcomes[i] \in UnchangedLines =>
                i \notin Range(writes) /\ FinalOutput(i) = fs0[i].c

\* the number of times symbol s is imported in c
ImportCount(c, s) ==
    LET n(t) ==
            IF t.k = "import"
            THEN Cardinality({j \in 1..Len(t.syms) : t.syms[j] = s})
            ELSE IF t.k = "importSym" /\ t.sym = s THEN 1 ELSE 0
        f[i \in 0..Len(c)] == IF i = 0 THEN 0 ELSE f[i - 1] + n(c[i])
    IN  f[Len(c)]

PaginationSymbols ==
    {"parseStandardPaginationParams", "buildStandardListResponse"}
CanonicalSymbols ==
    {"getRequestId", "logRequest", "logResponse", "globalRateLimitTracker",
     "addRateLimitHeaders", "standardErrorResponse",
     "validationErrorResponse", "ErrorCodes", "addStandardHeaders"}
        \cup PaginationSymbols

\* the handler of c that token i lies in
OwnerOf(c, i) ==
    CHOOSE m \in HandlersIn(c) : HandlerStart(c, m) <= i /\ i <= HandlerEnd(c, m)

\* C5: after the permission replacement of apply-rbac.py, every handler of
\* method M that held a legacy requireTenant block has as its authorization
\* call requirePermission(request, resource, METHOD_TO_ACTION[M]), whatever
\* the other handlers of the file are
C5_ActionOfOwnMethod ==
    (rule = "rbac.process_file" /\ runs = 1) =>
        \A m \in HandlersIn(prev) :
            (\E t \in Range(HandlerOf(prev, m)) : t.k = "tenantCall") =>
                OfKind(HandlerOf(content, m), {"tenantCall", "permCall"})
                    = <<PermCall(ctx.resource, METHOD_TO_ACTION(m))>>

\* the path lies under a SKIP_PATHS prefix
SkipListed(segment) == segment[1] \in SKIP_PATHS

\* C6: in apply-rbac.py a route file under a SKIP_PATHS prefix is never read
\* or written, is reported as skipped and counted as skipped only, never as
\* processed or updated; at the end of main processed + skipped is the number
\* of route files found
C6_SkipListExcluded ==
    script = "rbac" =>
        /\ \A i \in 1..Len(tasks) :
                SkipListed(tasks[i].segment) =>
                    /\ i \notin Range(reads) \cup Range(writes)
                    /\ fs[i] = fs0[i]
                    /\ i <= Len(outcomes) => outcomes[i] = "Skipped"
        /\ counts.skipped =
                Cardinality({i \in 1..Len(outcomes) : outcomes[i] = "Skipped"})
        /\ counts.processed =
                Cardinality({i \in 1..Len(outcomes) : outcomes[i] # "Skipped"})
        /\ counts.updated <= counts.processed
        /\ counts.processed + counts.skipped = Len(outcomes)
        /\ pc = "done" => counts.processed + counts.skipped = Len(tasks)

\* a finished run of apply-rbac.py that met a file under /api/authors, which
\* it skipped, and a file it updated
C6_SkippedAndUpdated ==
    /\ script = "rbac"
    /\ pc = "done"
    /\ \E i \in 1..Len(tasks) :
            tasks[i].segment = <<"auth", "ors">> /\ outcomes[i] = "Skipped"
    /\ \E i \in 1..Len(tasks) : outcomes[i] = "Updated"

\* C7: after one or more runs of an import rule no canonical symbol is
\* imported twice, and every canonical symbol the rule provides for the file
\* is imported exactly once, also when the file imported some of them before
C7_ImportedOnce ==
    (rule \in ImportRules /\ runs >= 1) =>
        \A s \in CanonicalSymbols :
            /\ ImportCount(content, s) <= 1
            /\ (rule = "add_imports" /\ ~ctx.isList /\ s \in PaginationSymbols)
                  \/ ImportCount(content, s) = 1

\* C8: a correlation rule run for GET on a file whose GET handler already
\* holds the binding  const requestId = getRequestId(request)  returns that
\* handler as it was
C8_BoundHandlerUntouched ==
    (/\ rule \in CorrelationRules
     /\ ctx.method = "GET"
     /\ runs >= 1
     /\ HasHandler(prev, "GET")
     /\ BindReqId \in Range(HandlerOf(prev, "GET"))) =>
        HandlerOf(content, "GET") = HandlerOf(prev, "GET")

\* C9: after migrate_endpoint or the process_file of apply-phase1-standards.py
\* on a file without any getRequestId, every handler starts, right after its
\* opening brace, with the bindings of requestId and startTime
C9_EveryHandlerBound ==
    (/\ rule \in {"migrate_endpoint", "phase1.process_file"}
     /\ runs = 1
     /\ ~Contains(prev, "getRequestId")) =>
        \A m \in HandlersIn(content) :
            LET h == HandlerOf(content, m)
            IN  Len(h) >= 3 /\ h[2] = BindReqId /\ h[3] = BindStart

\* C10: every rate-check block update_file has inserted lies in a handler and
\* carries the key suffix, limit and window RATE_LIMITS gives for the method
\* of that handler
C10_RateOfOwnMethod ==
    (rule = "update_file" /\ runs >= 1) =>
        \A i \in 1..Len(content) :
            content[i].k = "rate" =>
                /\ \E m \in HandlersIn(content) :
                        HandlerStart(content, m) <= i
                            /\ i <= HandlerEnd(content, m)
                /\ LET m == OwnerOf(content, i)
                   IN  content[i] = Rate(key_suffix(m), RATE_LIMITS(m)[1],
                                         RATE_LIMITS(m)[2])

\* C11: a rate-limit rule run on a content that already holds a
\* globalRateLimitTracker.trackRequest call adds no rate-check block, and
\* add_rate_limiting returns such a content as it is
C11_RateSkippedWhenPresent ==
    (/\ rule \in RateRules \cup {"add_request_tracking_to_get"}
     /\ runs >= 1
     /\ Contains(prev, "globalRateLimitTracker.trackRequest")) =>
        /\ OfKind(content, {"rate"}) = OfKind(prev, {"rate"})
        /\ rule \in RateRules => content = prev

\* the standardized name of a legacy pagination function
StandardName(name) ==
    IF name = "parsePaginationParams" THEN "parseStandardPaginationParams"
    ELSE "buildStandardListResponse"

\* C12: a pagination rule turns every call parsePaginationParams(args) or
\* buildPagedResponse(args) into the call of the standardized function with
\* the same arguments, in number, order and text, and changes nothing else
C12_PureRenaming ==
    (rule \in PaginationRules /\ runs = 1) =>
        /\ Len(content) = Len(prev)
        /\ \A i \in 1..Len(prev) :
            IF /\ prev[i].k = "call"
               /\ prev[i].name \in {"parsePaginationParams", "buildPagedResponse"}
            THEN content[i] = Call(StandardName(prev[i].name), prev[i].args)
            ELSE content[i] = prev[i]

\* return errorResponse(notFoundProblem('<m>'[, <extra>]))
LegacyNotFound(t) ==
    t.k = "legacyErr" /\ t.problem = "notFound" /\ t.quote = "single"

\* a standardized error call for a missing resource with message msg: code
\* NOT_FOUND and status 404, written out or carried by notFoundErrorResponse;
\* every standardized error call ends with the argument requestId
StandardNotFound(t, msg) ==
    /\ t.k = "stdErr"
    /\ t.quoted /\ t.msg = msg
    /\ \/ t.fn = "notFoundErrorResponse"
       \/ t.fn = "standardErrorResponse" /\ t.code = "NOT_FOUND"
            /\ t.status = 404

\* C13: an error rule rewrites every legacy call
\* errorResponse(notFoundProblem('<m>')), with or without a further argument,
\* into a standardized not-found error call with the same message m and the
\* correlation identifier, and leaves no legacy not-found call behind
C13_NotFoundCanonical ==
    (rule \in ErrorRules /\ runs = 1) =>
        /\ Len(content) = Len(prev)
        /\ \A i \in 1..Len(prev) :
            LegacyNotFound(prev[i]) => StandardNotFound(content[i], prev[i].msg)
        /\ \A i \in 1..Len(content) : ~LegacyNotFound(content[i])

\* the pairs <<module, symbol>> the import statements of c import; a symbol
\* line of a multi-line import belongs to the next closing line
ImportedPairs(c) ==
    UNION {
        IF c[i].k = "import"
        THEN {<<c[i].from, c[i].syms[j]>> : j \in 1..Len(c[i].syms)}
        ELSE IF c[i].k = "importSym"
        THEN LET closing == {j \in i..Len(c) : c[j].k = "importFrom"}
             IN  IF closing = {} THEN {}
                 ELSE {<<c[Min(closing)].from, c[i].sym>>}
        ELSE {} :
        i \in 1..Len(c) }

\* the symbols the import rules add, replace or remove
ManagedSymbols ==
    CanonicalSymbols \cup
    {"errorResponse", "internalServerErrorProblem", "notFoundProblem",
     "badRequestProblem", "successResponse", "requireTenant",
     "requirePermission", "parsePaginationParams", "buildPagedResponse"}

\* C14: an import rule keeps every import of the input that is not one of
\* the canonical or legacy symbols it manages
C14_UnrelatedImportsKept ==
    (rule \in ImportRules \cup RbacImportRules /\ runs >= 1) =>
        \A p \in ImportedPairs(prev) :
            p[2] \notin ManagedSymbols => p \in ImportedPairs(content)


\* the catch blocks of c: where each starts, its calls up to the closing },
\* and its rank in the file
CatchAt(c) == {i \in 1..Len(c) : c[i].k = "catch"}
CatchBlock(c, i) ==
    SubSeq(c, i + 1, Min({j \in (i + 1)..Len(c) : c[j].k = "close"}) - 1)
CatchRank(c, i) == Cardinality({j \in CatchAt(c) : j <= i})
\* block b with one logResponse call put before its first console.error
LoggedOnce(b) ==
    LET first == Min({j \in 1..Len(b) : b[j].k = "consoleError"})
    IN  SubSeq(b, 1, first - 1) \o <<LogResponse>> \o SubSeq(b, first, Len(b))

\* C15: after any number of runs of add_logging_to_catch, a catch block that
\* already held a logResponse call has the body it had, and every other
\* catch block that logs with console.error has its body with exactly one
\* logResponse call added, immediately before its console.error call(s).
C15_OneLogPerCatch ==
    (rule \in LoggingRules /\ runs >= 1) =>
        \A i \in CatchAt(input), j \in CatchAt(content) :
            CatchRank(input, i) = CatchRank(content, j) =>
                LET b == CatchBlock(input, i)
                    d == CatchBlock(content, j)
                IN  IF LogResponse \in Range(b) THEN d = b
                    ELSE ConsoleError \in Range(b) => d = LoggedOnce(b)


\* C16: at every point of a run each file holds either exactly the content
\* it had when the run began or exactly the full output of the script's
\* transformations for that content, whatever failed while reading,
\* transforming or writing it.
C16_NoPartialWrite ==
    \A i \in 1..Len(fs) : fs[i].c \in {fs0[i].c, FinalOutput(i)}


\* the paths opened by the reads (or the writes) of a run, in order
PathsOf(opened) == [i \in 1..Len(opened) |-> tasks[opened[i]].path]
Distinct(s) == \A i, j \in 1..Len(s) : i # j => s[i] # s[j]

\* C17: in one run of a script's main no path is read more than once and no
\* path is written more than once, also when the task list is the written
\* list extended by the scan of the reports directory.
C17_TouchedAtMostOnce ==
    Distinct(PathsOf(reads)) /\ Distinct(PathsOf(writes))

\* a run of fix-all-methods.py over one listed file and one found by the
\* scan has read and written both
C17_ListedAndScannedWritten ==
    /\ script = "fix" /\ pc = "done"
    /\ Len(tasks) = 2
    /\ tasks[1].path[1] = "listed" /\ tasks[2].path[1] = "reports"
    /\ reads = <<1, 2>> /\ writes = <<1, 2>>


\* how many files of the run were reported with the given line
Count(line) == Cardinality({i \in 1..Len(outcomes) : outcomes[i] = line})

\* C18: when main of update-phase1-endpoints.py or migrate-endpoints.py
\* prints its summary, the buckets add up to the number of tasks, the
\* updated/migrated bucket counts exactly the files that were rewritten
\* (no unchanged file), and the failed bucket counts exactly the files whose
\* processing raised (no missing file, which belongs to not found).
C18_SummaryFaithful ==
    (pc = "done" /\ script \in {"update", "migrate"}) =>
        /\ counts.updated + counts.failed + counts.skipped = Len(tasks)
        /\ counts.updated = Count("Updated")
        /\ counts.failed = Count("Failed")


\* one call of a rule by a per-file function: the rule and, for a rule that
\* is called for one handler, the method
Applied(r, m) == [rule |-> r, m |-> m]

\* the calls `for method in [...]: if 'export async function M' in content`
\* makes with the given rules on content c
PerMethodCalls(c, rules) ==
    LET f[n \in 0..Len(Methods)] ==
            IF n = 0 THEN <<>>
            ELSE IF HasHandler(c, Methods[n])
                 THEN f[n - 1] \o [i \in 1..Len(rules) |->
                                      Applied(rules[i], Methods[n])]
                 ELSE f[n - 1]
    IN  f[Len(Methods)]

\* the rule calls a per-file function makes on content c, in the order of
\* its code
RuleCalls(r, c) ==
    CASE r = "phase1.process_file" ->
            << Applied("apply_phase1_imports", ""),
               Applied("add_request_tracking_to_get", ""),
               Applied("replace_pagination_calls", ""),
               Applied("replace_error_responses", "") >>
      [] r = "update_file" ->
            IF AlreadyUpdated(c) THEN <<>>
            ELSE << Applied("add_imports", ""),
                    Applied("replace_old_error_functions", "") >>
                 \o PerMethodCalls(c, <<"update_method_handler",
                                        "add_rate_limiting">>)
                 \o << Applied("add_logging_to_catch", ""),
                       Applied("update_response_headers", "") >>
      [] r = "migrate_endpoint" ->
            IF AlreadyMigrated(c) THEN <<>>
            ELSE << Applied("update_imports", "") >>
                 \o PerMethodCalls(c, <<"add_request_correlation_to_handler">>)
                 \o << Applied("update_pagination_calls", ""),
                       Applied("update_error_responses", "") >>
      [] OTHER -> <<>>

\* what one call makes of content c
RunCall(a, c, isList) ==
    CASE a.rule = "apply_phase1_imports" -> apply_phase1_imports(c)
      [] a.rule = "add_request_tracking_to_get" -> add_request_tracking_to_get(c)
      [] a.rule = "replace_pagination_calls" -> replace_pagination_calls(c)
      [] a.rule = "replace_error_responses" -> replace_error_responses(c).c
      [] a.rule = "add_imports" -> add_imports(c, isList)
      [] a.rule = "replace_old_error_functions" -> replace_old_error_functions(c)
      [] a.rule = "update_method_handler" -> update_method_handler(c, a.m)
      [] a.rule = "add_rate_limiting" -> add_rate_limiting(c, a.m)
      [] a.rule = "add_logging_to_catch" -> add_logging_to_catch(c)
      [] a.rule = "update_response_headers" -> update_response_headers(c)
      [] a.rule = "update_imports" -> update_imports(c)
      [] a.rule = "add_request_correlation_to_handler" ->
            add_request_correlation_to_handler(c, a.m)
      [] a.rule = "update_pagination_calls" -> update_pagination_calls(c)
      [] a.rule = "update_error_responses" -> update_error_responses(c)

\* content c after the calls, one after the other
Replay(calls, c, isList) ==
    LET f[n \in 0..Len(calls)] ==
            IF n = 0 THEN c ELSE RunCall(calls[n], f[n - 1], isList)
    IN  f[Len(calls)]

\* the calls listed for a per-file function give the output of that function
RuleCallsGiveOutput ==
    (rule \in {"phase1.process_file", "update_file", "migrate_endpoint"}
     /\ runs >= 1) =>
        content = Replay(RuleCalls(rule, prev), prev, ctx.isList)

\* the place of a rule in the catalog: import normalization, correlation
\* injection, rate-limit injection, pagination renaming, error
\* canonicalization, catch-block logging; a rule outside the catalog is last
CatalogRank(r) ==
    CASE r \in {"apply_phase1_imports", "add_imports", "update_imports"} -> 1
      [] r \in {"add_request_tracking_to_get", "update_method_handler",
                "add_request_correlation_to_handler"} -> 2
      [] r = "add_rate_limiting" -> 3
      [] r \in {"replace_pagination_calls", "update_pagination_calls"} -> 4
      [] r \in {"replace_error_responses", "replace_old_error_functions",
                "update_error_responses"} -> 5
      [] r = "add_logging_to_catch" -> 6
      [] OTHER -> 7

\* C19: the rule calls a per-file function has made on a file follow the
\* catalog order (a rule of an earlier catalog place is never called for
\* the same handler or the whole file after a rule of a later place), the
\* import rule is the first call, and no call is made twice.
C19_CatalogOrder ==
    (rule \in PipelineRules /\ runs >= 1) =>
        LET calls == RuleCalls(rule, prev)
        IN  /\ \A i, j \in 1..Len(calls) :
                (i < j /\ (calls[i].m = calls[j].m \/ calls[i].m = ""
                              \/ calls[j].m = "")) =>
                    CatalogRank(calls[i].rule) <= CatalogRank(calls[j].rule)
            /\ calls # <<>> => CatalogRank(calls[1].rule) = 1
            /\ \A i, j \in 1..Len(calls) : i # j => calls[i] # calls[j]


\* the fields of the destructure statements of c, in order
DestrFields(c) ==
    LET d == OfKind(c, {"destr"}) IN [i \in 1..Len(d) |-> d[i].fields]
\* c holds a legacy authentication block whose destructure is
\* const { tenantId, user } = <x>Result;
HasLegacyPair(c) ==
    \E p \in 1..Len(c) :
        /\ AuthBlockEnd(c, p) # 0
        /\ c[AuthBlockEnd(c, p)].fields = <<"tenantId", "user">>
        /\ c[AuthBlockEnd(c, p)].pad = 1

\* C20: when permission replacement has rewritten a legacy block whose
\* destructure is const { tenantId, user } = <x>Result; and a rate-limit rule
\* has then run on its output, the destructured fields are the ones the
\* file had and the file holds a rate-check block.
C20_RbacOutputAnchorsRate ==
    (rule \in ChainRules /\ runs = 2 /\ HasLegacyPair(input)
     /\ Contains(prev, "requirePermission")) =>
        /\ DestrFields(prev) = DestrFields(input)
        /\ DestrFields(content) = DestrFields(input)
        /\ OfKind(content, {"rate"}) # <<>>


\* the requirePermission calls for the resource in the handler of m
PermCallsOf(c, m, resource) ==
    SelectSeq(HandlerOf(c, m), LAMBDA t : t.k = "permCall" /\ t.res = resource)

\* C21: after process_file of fix-all-methods.py, in every handler the
\* first requirePermission call for the resource carries the action of the
\* handler's own method, whatever the textual order of the handlers and
\* whether or not each of them holds such a call; and the step for one
\* method changes no token outside the handler of that method.
C21_FixOwnAction ==
    (rule \in FixRules /\ runs >= 1) =>
        /\ \A m \in HandlersIn(content) :
              PermCallsOf(content, m, ctx.resource) # <<>> =>
                  PermCallsOf(content, m, ctx.resource)[1].act
                      = METHOD_ACTIONS(m)
        /\ \A m \in HandlersIn(prev) :
              LET c2 == fix_method_in_content(prev, m, METHOD_ACTIONS(m),
                                              ctx.resource)
              IN  \A i \in 1..Len(prev) :
                      c2[i] # prev[i] => OwnerOf(prev, i) = m


\* the text of t refers to the identifier requestId without binding it
RefersRequestId(t) ==
    \/ t.k \in {"stdErr", "rate", "logResponse"}
    \/ t.k = "retJson" /\ t.form \in {"headers", "xreq"}
    \/ t.k = "errIf" /\ t.ret = "standardAuth"
References(c) == SelectSeq(c, RefersRequestId)

\* C22: after update_file or migrate_endpoint, every handler into which
\* the run has put a reference to requestId (a rewritten error response, a
\* header step, a rate-check block, a logResponse call) holds the binding
\* const requestId = getRequestId(request), for any number of handlers,
\* declared with or without parameters.
C22_NoDanglingRequestId ==
    (rule \in {"update_file", "migrate_endpoint"} /\ runs >= 1) =>
        \A m \in HandlersIn(content) :
            Len(References(HandlerOf(content, m)))
                    > Len(References(HandlerOf(prev, m))) =>
                BindReqId \in Range(HandlerOf(content, m))


\* the handler of m is declared with parameters, as method_pattern of
\* update_method_handler requires
Matched(c, m) == HasHandler(c, m) /\ c[HandlerStart(c, m)].params

\* C23: a requestId binding in another handler never keeps
\* update_method_handler from inserting one: after the rule has run for a
\* method, and after update_file for every method, each handler declared
\* with parameters holds a binding of its own, whatever the lengths and the
\* textual order of the handlers.
C23_GuardLocalToHandler ==
    /\ (rule = "update_method_handler" /\ runs >= 1
        /\ Matched(content, ctx.method)) =>
            BindReqId \in Range(HandlerOf(content, ctx.method))
    /\ (rule = "update_file" /\ runs >= 1 /\ ~AlreadyUpdated(prev)) =>
            \A m \in HandlersIn(content) :
                Matched(content, m) =>
                    BindReqId \in Range(HandlerOf(content, m))

====
